---- MODULE Spec2Model ----
(***************************************************************************)
(* A model of formatter.py (mp3-album-formatter): the Formatter object,   *)
(* its run() pipeline (unzip, flatten, scrape, match, update), the         *)
(* file-to-track matching of match()/__match_less()/__match_same() and    *)
(* the name templates of format_album_name()/format_song_names().         *)
(*                                                                         *)
(* Strings are sequences of one-character strings.  The four characters   *)
(* of the extension ".mp3" are kept together as the single symbol ".mp3"  *)
(* and the two characters of " [" as the single symbol " [": both are     *)
(* only ever produced and compared as wholes.                              *)
(***************************************************************************)
EXTENDS Integers, Sequences, FiniteSets, TLC

\* ------------------------------------------------------------------ bounds

\* Scores of the similarity matrix range over 0..MaxScore.
MaxScore == 1
\* Naming patterns explored by the template specification have at most
\* MaxPatLen characters.
MaxPatLen == 3
\* Folders explored by the flatten specification list at most MaxFolder
\* files.
MaxFolder == 2

\* ----------------------------------------------------------------- strings

Mp3 == ".mp3"
\* None where a string is expected: a one-symbol value no string equals
None == <<"None">>
\* the file column of a row that has no file yet
Unmatched == <<"*** UNMATCHED ***">>
\* float("nan"): the score of a row that has no file; no score equals it
NaN == -1
\* err when no exception has been raised
NoError == "none"

\* "".join / str concatenation of a sequence of strings with a separator
RECURSIVE Join(_, _)
Join(sep, parts) ==
    IF parts = <<>> THEN <<>>
    ELSE IF Len(parts) = 1 THEN parts[1]
    ELSE parts[1] \o sep \o Join(sep, Tail(parts))

CommaSpace == <<",", " ">>

StartsWith(s, p) == Len(s) >= Len(p) /\ SubSeq(s, 1, Len(p)) = p

\* str.replace(old, new): every non-overlapping occurrence, left to right
RECURSIVE Replace(_, _, _)
Replace(s, old, new) ==
    IF s = <<>> THEN <<>>
    ELSE IF StartsWith(s, old)
         THEN new \o Replace(SubSeq(s, Len(old) + 1, Len(s)), old, new)
         ELSE <<s[1]>> \o Replace(Tail(s), old, new)

Digits == <<"0", "1", "2", "3", "4", "5", "6", "7", "8", "9">>

\* str(n) for a natural number
RECURSIVE Str(_)
Str(n) == IF n < 10 THEN <<Digits[n + 1]>>
          ELSE Str(n \div 10) \o <<Digits[(n % 10) + 1]>>

\* str.zfill(width)
RECURSIVE Zfill(_, _)
Zfill(s, width) == IF Len(s) >= width THEN s ELSE Zfill(<<"0">> \o s, width)

\* the characters removed by re.sub(r'[<>:"\/\\\|\?\*]', "", ...)
IllegalChars == {"<", ">", ":", "\"", "/", "\\", "|", "?", "*"}

StripIllegal(s) == SelectSeq(s, LAMBDA c : c \notin IllegalChars)

EndsWithMp3(f) == f # <<>> /\ f[Len(f)] = Mp3

Range(s) == {s[i] : i \in 1..Len(s)}

\* --------------------------------------------------------------- variables

VARIABLES
    pc,                \* position of the process in main()/run()
    err,               \* the exception raised, NoError when none
    \* the arguments of Formatter(...), which become its fields
    album_name_format, song_name_format,
    flag_extract, flag_use_metadata,
    flag_preserve_album_name, flag_preserve_song_names,
    dest_path,         \* "None" or "dest"
    update_path,       \* "unset" (before __init__), "dest" or "album"
    metadata,          \* self.__metadata: NoMetadata ({}) or the scraped record
    \* the world outside the process
    platform,          \* "posix" or "nt": os.rename onto an existing file
    web,               \* what the album page holds
    archive,           \* the tree the ZIP holds
    zip_exists,        \* album_path exists (a ZIP when extracting)
    dir_at,            \* where the album directory lives
    dir_created,       \* the directory was created by unzip() of this run
    root,              \* files of the album directory, in listing order
    nested,            \* sub-folders of the album directory
    tags,              \* file id -> track index saved into its ID3 tag
    \* locals of match(), __match_less(), __match_same()
    file_names_ext, existing_metadata_titles,
    scraped_tracks, scraped_tracks_dict,
    matrix,            \* process.cdist(...): one row per file, one column per name
    best_match_inds, best_scores,
    scraped_tracks_copy, result,
    matched_track_names, unmatched_tracks, unmatched_inds,
    unmatched_files, choices, choices_to_files_dict,
    loop_i,
    \* locals of run() and update()
    filenames_to_track_inds, formatted_names,
    \* history
    log                \* facts about what has happened so far

vars == <<pc, err, album_name_format, song_name_format, flag_extract, flag_use_metadata,
          flag_preserve_album_name, flag_preserve_song_names, dest_path,
          update_path, metadata, platform, web, archive, zip_exists, dir_at,
          dir_created, root, nested, tags, file_names_ext,
          existing_metadata_titles, scraped_tracks, scraped_tracks_dict,
          matrix, best_match_inds, best_scores, scraped_tracks_copy, result,
          matched_track_names, unmatched_tracks, unmatched_inds,
          unmatched_files, choices, choices_to_files_dict, loop_i,
          filenames_to_track_inds, formatted_names, log>>

\* the fields __init__ sets (constant once constructed)
selfVars == <<album_name_format, song_name_format, flag_extract, flag_use_metadata,
              flag_preserve_album_name, flag_preserve_song_names, dest_path,
              update_path>>

\* the world the process never changes
envVars == <<platform, web, archive>>

\* the file system
fsVars == <<zip_exists, dir_at, dir_created, root, nested, tags>>

\* locals of match() and its two helpers
matchVars == <<file_names_ext, existing_metadata_titles, scraped_tracks,
               scraped_tracks_dict, matrix, best_match_inds, best_scores,
               scraped_tracks_copy, result, matched_track_names,
               unmatched_tracks, unmatched_inds, unmatched_files, choices,
               choices_to_files_dict>>

\* ------------------------------------------------------------------- dicts
\* A Python dict is a sequence of <<key, value>> pairs with distinct keys,
\* in insertion order.

DictKeys(d) == [i \in 1..Len(d) |-> d[i][1]]
DictValues(d) == [i \in 1..Len(d) |-> d[i][2]]
DictHas(d, k) == \E i \in 1..Len(d) : d[i][1] = k
DictGet(d, k) == d[CHOOSE i \in 1..Len(d) : d[i][1] = k][2]
\* d[k] = v: an existing key keeps its position
DictPut(d, k, v) ==
    IF DictHas(d, k)
    THEN [i \in 1..Len(d) |-> IF d[i][1] = k THEN <<k, v>> ELSE d[i]]
    ELSE Append(d, <<k, v>>)

RECURSIVE DictFromPairs(_)
DictFromPairs(pairs) ==
    IF pairs = <<>> THEN <<>>
    ELSE LET n == Len(pairs)
         IN  DictPut(DictFromPairs(SubSeq(pairs, 1, n - 1)),
                     pairs[n][1], pairs[n][2])

\* list.remove(x): the first occurrence
ListRemove(l, x) ==
    LET k == CHOOSE i \in 1..Len(l) : l[i] = x /\ \A j \in 1..(i - 1) : l[j] # x
    IN  SubSeq(l, 1, k - 1) \o SubSeq(l, k + 1, Len(l))

\* --------------------------------------------------------------- templates

ApplyOne(format, item) == Replace(format, item[1], item[2])

\* for mod, replaced in name_format_dict.items():
\*     format = format.replace(mod, replaced)
RECURSIVE ApplyFormat(_, _)
ApplyFormat(format, name_format_dict) ==
    IF name_format_dict = <<>> THEN format
    ELSE ApplyFormat(ApplyOne(format, name_format_dict[1]),
                     Tail(name_format_dict))

AlbumFormatDict(md) ==
    << <<(<<"%", "a">>), md.album_name>>,
       <<(<<"%", "r">>), Join(CommaSpace, md.album_artists)>>,
       <<(<<"%", "g">>), md.genre>>,
       <<(<<"%", "y">>), md.year>> >>

SongFormatDict(md, track_ind) ==
    AlbumFormatDict(md) \o
    << <<(<<"%", "t">>), md.tracks[track_ind + 1].name>>,
       <<(<<"%", "s">>), Join(CommaSpace, md.tracks[track_ind + 1].artists)>>,
       <<(<<"%", "n">>), Zfill(Str(md.tracks[track_ind + 1].num), 2)>>,
       <<(<<"%", "d">>), Str(md.tracks[track_ind + 1].disc)>> >>

format_album_name(md, fmt) == ApplyFormat(fmt, AlbumFormatDict(md))

format_song_names(md, fmt, matched_track_inds) ==
    [k \in 1..Len(matched_track_inds) |->
        ApplyFormat(fmt, SongFormatDict(md, matched_track_inds[k]))]

\* re.sub(...) + ".mp3"
NewFileName(formatted) == StripIllegal(formatted) \o <<Mp3>>

\* a rename step that does not compare the names
NamesDistinctUnchecked(names) == TRUE

\* len(formatted_names) == len(set(formatted_names))
NamesDistinct(names) == Len(names) = Cardinality(Range(names))

\* ---------------------------------------------------------------- matching

\* scraped_tracks_dict = {track["name"]: i for i, track in enumerate(tracks)}
ScrapedTracksDict(md) ==
    DictFromPairs([i \in 1..Len(md.tracks) |-> <<md.tracks[i].name, i - 1>>])

\* the .mp3 entries of os.listdir(update_path), in listing order
Mp3Entries(dir) == SelectSeq(dir, LAMBDA e : EndsWithMp3(e.name))

FileNamesExt(dir) == [i \in 1..Len(Mp3Entries(dir)) |-> Mp3Entries(dir)[i].name]
ExistingTitles(dir) == [i \in 1..Len(Mp3Entries(dir)) |-> Mp3Entries(dir)[i].title]

\* a count check that lets more files than tracks through to the prompts
RegimeNoMore(n_files, n_scraped) ==
    IF n_files # n_scraped THEN "less" ELSE "same"

\* the branches of match() on the two counts: the number of .mp3 files and
\* the number of (distinct) scraped track names
Regime(n_files, n_scraped) ==
    IF n_files > n_scraped THEN "more"
    ELSE IF n_files < n_scraped THEN "less"
    ELSE "same"

\* a decline that does not end the process
ExitsNever(proceed) == FALSE

\* "if not proceed: exit(1)" after a confirmation prompt
ExitsOnDecline(proceed) == ~proceed

Scores == 0..MaxScore

\* every matrix process.cdist may return: one row per file, one column per
\* scraped track name
Matrices(n_files, n_scraped) == [1..n_files -> [1..n_scraped -> Scores]]

\* row.max()
RowMax(row) == CHOOSE v \in Range(row) : \A w \in Range(row) : w <= v
\* an argmax that resolves ties to the highest index
RowArgMaxLast(row) ==
    (CHOOSE k \in 1..Len(row) :
        /\ \A j \in 1..Len(row) : row[j] <= row[k]
        /\ \A j \in (k + 1)..Len(row) : row[j] # row[k]) - 1

\* row.argmax(): the first index (0-based) holding the maximum
RowArgMax(row) ==
    (CHOOSE k \in 1..Len(row) :
        /\ row[k] = RowMax(row)
        /\ \A j \in 1..(k - 1) : row[j] # RowMax(row)) - 1

BestMatchInds(mx) == [i \in 1..Len(mx) |-> RowArgMax(mx[i])]
BestScores(mx) == [i \in 1..Len(mx) |-> RowMax(mx[i])]

\* file name + " [existing title]" when matching by metadata
Display(file, title, use_metadata) ==
    IF use_metadata THEN file \o <<" [">> \o title \o <<"]">> ELSE file

\* x[i]: the (1-based) positions of the files whose best match is track i
FileInds(best, scraped_i) ==
    SelectSeq([f \in 1..Len(best) |-> f], LAMBDA f : best[f] = scraped_i)

\* one row of matched_track_names:
\* [disc, num, track name, file, file + existing title, score]
FirstRow(md, st, fne, titles, best, scores, use_metadata, scraped_i) ==
    LET file_inds == FileInds(best, scraped_i)
        track == md.tracks[scraped_i + 1]
    IN  IF Len(file_inds) = 1
        THEN [disc |-> track.disc, num |-> track.num, name |-> st[scraped_i + 1],
              file |-> fne[file_inds[1]],
              display |-> Display(fne[file_inds[1]], titles[file_inds[1]],
                                  use_metadata),
              score |-> scores[file_inds[1]]]
        ELSE [disc |-> track.disc, num |-> track.num, name |-> st[scraped_i + 1],
              file |-> Unmatched, display |-> Unmatched, score |-> NaN]

RowLess(a, b) == a.disc < b.disc \/ (a.disc = b.disc /\ a.num < b.num)

\* list.sort() of the rows: rows differ in (disc, num), which decides
RECURSIVE SortRows(_)
SortRows(rows) ==
    IF rows = <<>> THEN <<>>
    ELSE LET k == CHOOSE i \in 1..Len(rows) :
                     \A j \in 1..Len(rows) :
                        j # i => (RowLess(rows[i], rows[j])
                                  \/ (~RowLess(rows[j], rows[i]) /\ i < j))
         IN  <<rows[k]>> \o
             SortRows(SubSeq(rows, 1, k - 1) \o SubSeq(rows, k + 1, Len(rows)))

\* the track indices (0-based) that need manual resolution, in track order
UnmatchedInds(best, n) ==
    SelectSeq([t \in 1..n |-> t - 1], LAMBDA t : Len(FileInds(best, t)) # 1)

\* unmatched_files += [file_names_ext[i] for i in file_inds], track by track
RECURSIVE UnmatchedFileInds(_, _)
UnmatchedFileInds(best, n) ==
    IF n = 0 THEN <<>>
    ELSE UnmatchedFileInds(best, n - 1) \o
         (IF Len(FileInds(best, n - 1)) > 1 THEN FileInds(best, n - 1) ELSE <<>>)

\* matched_track_names as __match_same() first builds and sorts it
FirstRows(md, st, fne, titles, mx, use_metadata) ==
    SortRows([t \in 1..Len(fne) |->
                FirstRow(md, st, fne, titles, BestMatchInds(mx), BestScores(mx),
                         use_metadata, t - 1)])

\* the table tabulate() prints: (m[0], m[1], m[2], m[4], m[5]) of every row
Table(rows) ==
    [r \in 1..Len(rows) |->
        [disc |-> rows[r].disc, num |-> rows[r].num, name |-> rows[r].name,
         display |-> rows[r].display, score |-> rows[r].score]]

\* {field[3]: i for i, field in enumerate(matched_track_names)}
MappingOfRows(rows) == DictFromPairs([i \in 1..Len(rows) |-> <<rows[i].file, i - 1>>])

\* ----------------------------------------------------------------- actions

\* an exception leaves the current step of run() for its except clause
Raise(e) == pc' = "except" /\ err' = e

\* the locals of match() are gone once it has returned or raised
NoLocals ==
    /\ file_names_ext' = <<>>
    /\ existing_metadata_titles' = <<>>
    /\ scraped_tracks' = <<>>
    /\ scraped_tracks_dict' = <<>>
    /\ matrix' = <<>>
    /\ best_match_inds' = <<>>
    /\ best_scores' = <<>>
    /\ scraped_tracks_copy' = <<>>
    /\ result' = <<>>
    /\ matched_track_names' = <<>>
    /\ unmatched_tracks' = <<>>
    /\ unmatched_inds' = <<>>
    /\ unmatched_files' = <<>>
    /\ choices' = <<>>
    /\ choices_to_files_dict' = <<>>
    /\ loop_i' = 0

\* match() returns its mapping to run(), which calls update() with it
ReturnMapping(mapping) ==
    /\ pc' = "update"
    /\ filenames_to_track_inds' = mapping
    /\ NoLocals

\* __match_same() up to its first prompt (or its return when every track
\* was matched automatically)
EnterMatchSame(fne, titles, st, mx) ==
    LET best == BestMatchInds(mx)
        scores == BestScores(mx)
        n == Len(fne)
        rows == FirstRows(metadata, st, fne, titles, mx, flag_use_metadata)
        u_inds == UnmatchedInds(best, n)
        u_file_inds == UnmatchedFileInds(best, n)
        u_files == [k \in 1..Len(u_file_inds) |-> fne[u_file_inds[k]]]
        u_titles == [k \in 1..Len(u_file_inds) |-> titles[u_file_inds[k]]]
        labels == [k \in 1..Len(u_files) |->
                      Display(u_files[k], u_titles[k], flag_use_metadata)]
    IN  IF u_files = <<>>
        THEN /\ ReturnMapping(MappingOfRows(rows))
             /\ err' = err
        ELSE /\ pc' = "same_select"
             /\ file_names_ext' = fne
             /\ existing_metadata_titles' = titles
             /\ scraped_tracks' = st
             /\ matrix' = mx
             /\ best_match_inds' = best
             /\ best_scores' = scores
             /\ matched_track_names' = rows
             /\ unmatched_inds' = u_inds
             /\ unmatched_tracks' = [k \in 1..Len(u_inds) |-> st[u_inds[k] + 1]]
             /\ unmatched_files' = u_files
             /\ choices' = labels
             /\ choices_to_files_dict' =
                    DictFromPairs([k \in 1..Len(u_files) |-> <<labels[k], u_files[k]>>])
             /\ loop_i' = 0
             /\ UNCHANGED <<err, scraped_tracks_dict, scraped_tracks_copy, result,
                            filenames_to_track_inds>>

\* __match_less() up to its confirmation prompt
EnterMatchLess(fne, titles, st, st_dict, mx) ==
    /\ pc' = "less_confirm"
    /\ file_names_ext' = fne
    /\ existing_metadata_titles' = titles
    /\ scraped_tracks' = st
    /\ scraped_tracks_dict' = st_dict
    /\ matrix' = mx
    /\ best_match_inds' = BestMatchInds(mx)
    /\ best_scores' = BestScores(mx)
    /\ UNCHANGED <<err, scraped_tracks_copy, result, matched_track_names,
                   unmatched_tracks, unmatched_inds, unmatched_files, choices,
                   choices_to_files_dict, loop_i, filenames_to_track_inds>>

\* match(): list the files, read their titles, compare the counts, score,
\* and enter the helper of the regime
match ==
    /\ pc = "match"
    /\ LET fne == FileNamesExt(root)
           titles == ExistingTitles(root)
           st_dict == ScrapedTracksDict(metadata)
           st == DictKeys(st_dict)
       IN  \/ \* ID3(...) of a file fails
              /\ fne # <<>>
              /\ Raise("MutagenError")
              /\ NoLocals
              /\ UNCHANGED <<filenames_to_track_inds, log>>
           \/ /\ Regime(Len(fne), Len(st)) = "more"
              /\ Raise("MismatchException")
              /\ NoLocals
              /\ UNCHANGED <<filenames_to_track_inds, log>>
           \/ /\ Regime(Len(fne), Len(st)) # "more"
              /\ \E mx \in Matrices(Len(fne), Len(st)) :
                    IF Regime(Len(fne), Len(st)) = "less"
                    THEN /\ EnterMatchLess(fne, titles, st, st_dict, mx)
                         /\ log' = [log EXCEPT !.matrix = TRUE, !.regime = "less"]
                    ELSE /\ EnterMatchSame(fne, titles, st, mx)
                         /\ log' = [log EXCEPT
                                      !.matrix = TRUE,
                                      !.regime = Regime(Len(fne), Len(st)),
                                      !.tables = <<Table(FirstRows(metadata, st, fne,
                                                     titles, mx, flag_use_metadata))>>]
    /\ UNCHANGED <<selfVars, envVars, fsVars, metadata, formatted_names>>

\* __match_less(): the answer to "There are less MP3 files ... Proceed?"
match_less_confirm ==
    /\ pc = "less_confirm"
    /\ \E proceed \in BOOLEAN :
          IF ExitsOnDecline(proceed)
          THEN \* exit(1)
               /\ pc' = "exited"
               /\ log' = [log EXCEPT !.prompts = @ + 1, !.declined = ~proceed]
               /\ UNCHANGED <<matchVars, loop_i, filenames_to_track_inds>>
          ELSE /\ log' = [log EXCEPT !.prompts = @ + 1, !.declined = ~proceed,
                                     !.less_yes = proceed]
               /\ IF file_names_ext = <<>>
                  THEN ReturnMapping(<<>>)
                  ELSE /\ pc' = "less_choose"
                       /\ scraped_tracks_copy' = scraped_tracks
                       /\ result' = <<>>
                       /\ loop_i' = 0
                       /\ UNCHANGED <<file_names_ext, existing_metadata_titles,
                                      scraped_tracks, scraped_tracks_dict,
                                      matrix, best_match_inds, best_scores,
                                      matched_track_names, unmatched_tracks,
                                      unmatched_inds, unmatched_files, choices,
                                      choices_to_files_dict,
                                      filenames_to_track_inds>>
    /\ UNCHANGED <<err, selfVars, envVars, fsVars, metadata, formatted_names>>

\* __match_less(): the track the user enters for file loop_i; the prompt
\* accepts exactly the names still in scraped_tracks_copy
match_less_choose ==
    /\ pc = "less_choose"
    /\ \E chosen \in Range(scraped_tracks_copy) :
          LET file_name == file_names_ext[loop_i + 1]
              new_result == DictPut(result, file_name,
                                    DictGet(scraped_tracks_dict, chosen))
          IN  /\ log' = [log EXCEPT !.prompts = @ + 1]
              /\ IF loop_i + 1 = Len(file_names_ext)
                 THEN ReturnMapping(new_result)
                 ELSE /\ scraped_tracks_copy' = ListRemove(scraped_tracks_copy, chosen)
                      /\ result' = new_result
                      /\ loop_i' = loop_i + 1
                      /\ UNCHANGED <<pc, file_names_ext, existing_metadata_titles,
                                     scraped_tracks, scraped_tracks_dict,
                                     matrix, best_match_inds, best_scores,
                                     matched_track_names, unmatched_tracks,
                                     unmatched_inds, unmatched_files, choices,
                                     choices_to_files_dict,
                                     filenames_to_track_inds>>
    /\ UNCHANGED <<err, selfVars, envVars, fsVars, metadata, formatted_names>>

\* __match_same(): the file the user selects for unmatched track loop_i
match_same_select ==
    /\ pc = "same_select"
    /\ \E chosen \in Range(choices) :
          LET row == unmatched_inds[loop_i + 1] + 1
              rows == [matched_track_names EXCEPT
                          ![row].file = DictGet(choices_to_files_dict, chosen),
                          ![row].display = chosen]
          IN  /\ log' = [log EXCEPT
                           !.prompts = @ + 1,
                           !.tables = IF loop_i + 1 = Len(unmatched_tracks)
                                      THEN Append(@, Table(rows)) ELSE @]
              /\ IF loop_i + 1 = Len(unmatched_tracks)
                 THEN ReturnMapping(MappingOfRows(rows))
                 ELSE /\ matched_track_names' = rows
                      /\ choices' = ListRemove(choices, chosen)
                      /\ loop_i' = loop_i + 1
                      /\ UNCHANGED <<pc, file_names_ext, existing_metadata_titles,
                                     scraped_tracks, scraped_tracks_dict,
                                     matrix, best_match_inds, best_scores,
                                     scraped_tracks_copy, result,
                                     unmatched_tracks, unmatched_inds,
                                     unmatched_files, choices_to_files_dict,
                                     filenames_to_track_inds>>
    /\ UNCHANGED <<err, selfVars, envVars, fsVars, metadata, formatted_names>>

\* ------------------------------------------------------------- file system

\* the name of the album directory (of dest_path or album_path)
DirName == <<"d">>

Names(dir) == {dir[i].name : i \in 1..Len(dir)}

EntryNamed(dir, name) == dir[CHOOSE i \in 1..Len(dir) : dir[i].name = name]

\* os.path.splitext
Extensions == {Mp3, ".jpg"}
SplitAnyExt(f) ==
    IF f # <<>> /\ f[Len(f)] \in Extensions
    THEN <<SubSeq(f, 1, Len(f) - 1), <<f[Len(f)]>>>>
    ELSE <<f, <<>>>>

\* a = ""; while os.path.exists(root_folder/name + a + ext): a += "_"
RECURSIVE Disambiguate(_, _, _, _)
Disambiguate(name, a, ext, taken) ==
    IF (name \o a \o ext) \in taken
    THEN Disambiguate(name, a \o <<"_">>, ext, taken)
    ELSE name \o a \o ext

\* os.rename(src, dst) inside one directory listing: dst is replaced on
\* posix and refused on nt; the entry keeps its place in the listing
RenameIn(dir, src, dst, os) ==
    IF src \notin Names(dir) THEN [error |-> "FileNotFoundError", dir |-> dir]
    ELSE IF src = dst THEN [error |-> NoError, dir |-> dir]
    ELSE IF dst \in Names(dir) /\ os = "nt"
         THEN [error |-> "FileExistsError", dir |-> dir]
    ELSE [error |-> NoError,
          dir |-> LET kept == SelectSeq(dir, LAMBDA e : e.name # dst)
                  IN  [i \in 1..Len(kept) |->
                          IF kept[i].name = src
                          THEN [kept[i] EXCEPT !.name = dst] ELSE kept[i]]]

\* flatten(): one nested file: rename it inside its folder to a name that
\* is free in the root folder, then shutil.move it to the root folder
FlattenFile(st, k, file, os) ==
    IF st.error # NoError THEN st
    ELSE LET parts == SplitAnyExt(file)
             new == Disambiguate(parts[1], <<>>, parts[2], Names(st.root))
             renamed == RenameIn(st.nested[k], file, new, os)
         IN  IF renamed.error # NoError
             THEN [st EXCEPT !.error = renamed.error]
             ELSE [st EXCEPT
                     !.root = Append(@, EntryNamed(renamed.dir, new)),
                     !.nested[k] = SelectSeq(renamed.dir, LAMBDA e : e.name # new),
                     !.moved = @ + 1]

\* for file in files (the listing os.walk took of folder k)
RECURSIVE FlattenFolder(_, _, _, _)
FlattenFolder(st, k, files, os) ==
    IF files = <<>> THEN st
    ELSE FlattenFolder(FlattenFile(st, k, files[1].name, os), k, Tail(files), os)

\* for root, _, files in os.walk(root_folder): the nested folders in turn
RECURSIVE FlattenFrom(_, _, _)
FlattenFrom(st, k, os) ==
    IF k > Len(st.nested) THEN st
    ELSE FlattenFrom(FlattenFolder(st, k, st.nested[k], os), k + 1, os)

Flattened(dir, sub, os) ==
    FlattenFrom([root |-> dir, nested |-> sub, error |-> NoError, moved |-> 0],
                1, os)

\* os.path.exists(album_path)
AlbumPathExists == IF flag_extract THEN zip_exists ELSE dir_at = "path"

\* os.path.isdir(self.__dest_path)
DestIsDir == dest_path = update_path /\ dir_at = "path"

\* ---------------------------------------------------------------- pipeline

NoMatchChange == UNCHANGED <<matchVars, loop_i, filenames_to_track_inds>>

\* a validation that forgets the song name format
InvalidFormatAlbumOnly(album_fmt, song_fmt) == album_fmt = <<>>

\* album_name_format == "" or song_name_format == ""
InvalidFormat(album_fmt, song_fmt) == album_fmt = <<>> \/ song_fmt = <<>>

\* Formatter.__init__; an exception here is not caught by main()
Construct ==
    /\ pc = "new"
    /\ IF InvalidFormat(album_name_format, song_name_format)
       THEN /\ pc' = "crashed"
            /\ err' = "InvalidFormatException"
            /\ UNCHANGED <<album_name_format, song_name_format, update_path>>
       ELSE IF ~AlbumPathExists
       THEN /\ pc' = "crashed"
            /\ err' = "FileNotFoundError"
            /\ UNCHANGED <<album_name_format, song_name_format, update_path>>
       ELSE /\ pc' = "unzip"
            /\ err' = err
            /\ album_name_format' =
                  IF album_name_format = None THEN <<"%", "a">> ELSE album_name_format
            /\ song_name_format' =
                  IF song_name_format = None THEN <<"%", "t">> ELSE song_name_format
            /\ update_path' = IF flag_extract THEN dest_path ELSE "album"
    /\ UNCHANGED <<flag_extract, flag_use_metadata, flag_preserve_album_name,
                   flag_preserve_song_names, dest_path, metadata, envVars,
                   fsVars, formatted_names, log>>
    /\ NoMatchChange

\* unzip(): ZipFile(album_path).extractall(dest_path)
unzip ==
    /\ pc = "unzip"
    /\ \/ /\ ~flag_extract
          /\ pc' = "flatten"
          /\ UNCHANGED <<err, fsVars, log>>
       \/ \* the archive cannot be opened: nothing is created
          /\ flag_extract
          /\ Raise("BadZipFile")
          /\ UNCHANGED <<fsVars, log>>
       \/ \* extraction fails after the directory was created
          /\ flag_extract
          /\ Raise("OSError")
          /\ dir_at' = "path"
          /\ dir_created' = (dir_at = "none")
          /\ log' = [log EXCEPT !.extracted = TRUE]
          /\ UNCHANGED <<zip_exists, root, nested, tags>>
       \/ /\ flag_extract
          /\ pc' = "flatten"
          /\ dir_at' = "path"
          /\ dir_created' = (dir_at = "none")
          /\ root' = root \o archive.root
          /\ nested' = nested \o archive.nested
          /\ log' = [log EXCEPT !.extracted = TRUE]
          /\ UNCHANGED <<err, zip_exists, tags>>
    /\ UNCHANGED <<selfVars, envVars, metadata, formatted_names>>
    /\ NoMatchChange

\* flatten(): move every nested file to the root folder, then delete the
\* nested folders
flatten ==
    /\ pc = "flatten"
    /\ LET st == Flattened(root, nested, platform)
       IN  /\ root' = st.root
           /\ log' = [log EXCEPT !.moved = @ \/ st.moved > 0,
                                 !.dirs_deleted = @ \/ (st.error = NoError /\ nested # <<>>)]
           /\ IF st.error # NoError
              THEN /\ Raise(st.error)
                   /\ nested' = st.nested
              ELSE /\ pc' = "scrape"
                   /\ err' = err
                   /\ nested' = <<>>
    /\ UNCHANGED <<selfVars, envVars, metadata, zip_exists, dir_at, dir_created,
                   tags, formatted_names>>
    /\ NoMatchChange

\* scrape(): the album page is read, or the browser fails
scrape ==
    /\ pc = "scrape"
    /\ \/ /\ pc' = "match"
          /\ metadata' = web
          /\ err' = err
       \/ /\ Raise("TimeoutError")
          /\ metadata' = metadata
    /\ UNCHANGED <<selfVars, envVars, fsVars, formatted_names, log>>
    /\ NoMatchChange

\* update(): the answer to "Proceed with updating files?"
update_confirm ==
    /\ pc = "update"
    /\ \E proceed \in BOOLEAN :
          IF ExitsOnDecline(proceed)
          THEN \* exit(1)
               /\ pc' = "exited"
               /\ log' = [log EXCEPT !.prompts = @ + 1, !.declined = ~proceed]
               /\ loop_i' = loop_i
          ELSE /\ pc' = IF filenames_to_track_inds = <<>>
                        THEN "rename_songs" ELSE "write_tags"
               /\ log' = [log EXCEPT !.prompts = @ + 1, !.declined = ~proceed,
                                     !.update_yes = proceed]
               /\ loop_i' = 0
    /\ UNCHANGED <<err, selfVars, envVars, fsVars, metadata, matchVars,
                   filenames_to_track_inds, formatted_names>>

\* update(): the ID3 frames of the loop_i-th file of the mapping are set
\* and saved, or reading the file, fetching the cover or saving fails
write_tags ==
    /\ pc = "write_tags"
    /\ LET file_name == filenames_to_track_inds[loop_i + 1][1]
           i == filenames_to_track_inds[loop_i + 1][2]
       IN  \/ /\ file_name \in Names(root)
              /\ tags' = {t \in tags : t[1] # EntryNamed(root, file_name).id}
                             \cup {<<EntryNamed(root, file_name).id, i>>}
              /\ log' = [log EXCEPT !.tag_writes = @ + 1]
              /\ pc' = IF loop_i + 1 = Len(filenames_to_track_inds)
                       THEN "rename_songs" ELSE "write_tags"
              /\ loop_i' = loop_i + 1
              /\ err' = err
           \/ /\ Raise("MutagenError")
              /\ UNCHANGED <<tags, log, loop_i>>
    /\ UNCHANGED <<selfVars, envVars, metadata, zip_exists, dir_at,
                   dir_created, root, nested, matchVars,
                   filenames_to_track_inds, formatted_names>>

\* update(): "rename track files": the names are formatted and compared
rename_songs ==
    /\ pc = "rename_songs"
    /\ IF flag_preserve_song_names
       THEN /\ pc' = "rename_album"
            /\ UNCHANGED <<formatted_names, loop_i>>
       ELSE LET names == format_song_names(metadata, song_name_format,
                                           DictValues(filenames_to_track_inds))
            IN  /\ formatted_names' = names
                /\ loop_i' = 0
                /\ pc' = IF NamesDistinct(names) /\ names # <<>>
                         THEN "rename_song" ELSE "rename_album"
    /\ UNCHANGED <<err, selfVars, envVars, fsVars, metadata, matchVars,
                   filenames_to_track_inds, log>>

\* update(): os.rename of the loop_i-th file of the mapping
rename_song ==
    /\ pc = "rename_song"
    /\ LET file_name == filenames_to_track_inds[loop_i + 1][1]
           new_file_name == NewFileName(formatted_names[loop_i + 1])
           renamed == RenameIn(root, file_name, new_file_name, platform)
       IN  \/ /\ renamed.error = NoError
              /\ root' = renamed.dir
              /\ log' = [log EXCEPT
                           !.song_renames = @ + 1,
                           !.overwritten = @ \/ Len(renamed.dir) < Len(root)]
              /\ pc' = IF loop_i + 1 = Len(filenames_to_track_inds)
                       THEN "rename_album" ELSE "rename_song"
              /\ loop_i' = loop_i + 1
              /\ err' = err
           \/ /\ renamed.error # NoError
              /\ Raise(renamed.error)
              /\ UNCHANGED <<root, log, loop_i>>
           \/ /\ Raise("OSError")
              /\ UNCHANGED <<root, log, loop_i>>
    /\ UNCHANGED <<selfVars, envVars, metadata, zip_exists, dir_at,
                   dir_created, nested, tags, matchVars,
                   filenames_to_track_inds, formatted_names>>

\* update(): "rename album folder"
rename_album ==
    /\ pc = "rename_album"
    /\ LET new_album_name == StripIllegal(format_album_name(metadata, album_name_format))
       IN  \/ /\ flag_preserve_album_name
              /\ pc' = "delete_zip"
              /\ UNCHANGED <<err, dir_at, log>>
           \/ \* renamed onto itself
              /\ ~flag_preserve_album_name
              /\ new_album_name = DirName
              /\ pc' = "delete_zip"
              /\ UNCHANGED <<err, dir_at, log>>
           \/ /\ ~flag_preserve_album_name
              /\ new_album_name # DirName
              /\ pc' = "delete_zip"
              /\ dir_at' = "renamed"
              /\ log' = [log EXCEPT !.album_renamed = TRUE]
              /\ err' = err
           \/ \* the target exists and is not empty, or the disk fails
              /\ ~flag_preserve_album_name
              /\ new_album_name # DirName
              /\ Raise("OSError")
              /\ UNCHANGED <<dir_at, log>>
    /\ UNCHANGED <<selfVars, envVars, metadata, zip_exists, dir_created, root,
                   nested, tags, matchVars, loop_i, filenames_to_track_inds,
                   formatted_names>>

\* delete_zip(), then the last two prints of update()
delete_zip ==
    /\ pc = "delete_zip"
    /\ \/ /\ ~flag_extract
          /\ pc' = "done"
          /\ UNCHANGED <<err, zip_exists, log>>
       \/ /\ flag_extract
          /\ \E proceed \in BOOLEAN :
                IF proceed /\ zip_exists
                THEN /\ zip_exists' = FALSE
                     /\ log' = [log EXCEPT !.prompts = @ + 1, !.zip_deleted = TRUE]
                ELSE /\ zip_exists' = zip_exists
                     /\ log' = [log EXCEPT !.prompts = @ + 1]
          /\ pc' = "done"
          /\ err' = err
       \/ \* os.remove fails
          /\ flag_extract
          /\ zip_exists
          /\ Raise("PermissionError")
          /\ log' = [log EXCEPT !.prompts = @ + 1]
          /\ zip_exists' = zip_exists
    /\ UNCHANGED <<selfVars, envVars, metadata, dir_at, dir_created, root,
                   nested, tags, matchVars, loop_i, filenames_to_track_inds,
                   formatted_names>>

\* run(): except Exception: delete the unzipped folder, print the error
except_handler ==
    /\ pc = "except"
    /\ pc' = "returned"
    /\ IF dest_path # "None" /\ DestIsDir
       THEN /\ dir_at' = "none"
            /\ root' = <<>>
            /\ nested' = <<>>
            /\ log' = [log EXCEPT !.rmtree = TRUE]
       ELSE UNCHANGED <<dir_at, root, nested, log>>
    /\ UNCHANGED <<err, selfVars, envVars, metadata, zip_exists, dir_created,
                   tags, matchVars, loop_i, filenames_to_track_inds,
                   formatted_names>>

\* -------------------------------------------------------------- the inputs

A == <<"A">>
B == <<"B">>
C == <<"C">>

MkTrack(name, num, total_num, disc, total_disc) ==
    [name |-> name, num |-> num, total_num |-> total_num, disc |-> disc,
     total_disc |-> total_disc, artists |-> <<>>]

\* the tracks list scrape() builds from the discs of the page, in page order
TracksOf(disc1, disc2) ==
    LET n_discs == IF disc2 = <<>> THEN 1 ELSE 2
    IN  [j \in 1..Len(disc1) |-> MkTrack(disc1[j], j, Len(disc1), 1, n_discs)]
        \o [j \in 1..Len(disc2) |-> MkTrack(disc2[j], j, Len(disc2), 2, n_discs)]

Album(name, disc1, disc2) ==
    [album_name |-> name, album_artists |-> << <<"R">> >>, genre |-> <<"G">>,
     year |-> <<"2", "0">>, tracks |-> TracksOf(disc1, disc2)]

\* self.__metadata = {}
NoMetadata ==
    [album_name |-> <<>>, album_artists |-> <<>>, genre |-> <<>>,
     year |-> <<>>, tracks |-> <<>>]

File(name, id, title) == [name |-> name, id |-> id, title |-> title]

NoTree == [root |-> <<>>, nested |-> <<>>]

InitLog ==
    [extracted |-> FALSE, moved |-> FALSE, dirs_deleted |-> FALSE,
     matrix |-> FALSE, regime |-> "none", tables |-> <<>>, prompts |-> 0,
     declined |-> FALSE,
     less_yes |-> FALSE, update_yes |-> FALSE,
     tag_writes |-> 0, song_renames |-> 0, overwritten |-> FALSE,
     album_renamed |-> FALSE, zip_deleted |-> FALSE, rmtree |-> FALSE]

NoLocalsYet ==
    /\ file_names_ext = <<>>
    /\ existing_metadata_titles = <<>>
    /\ scraped_tracks = <<>>
    /\ scraped_tracks_dict = <<>>
    /\ matrix = <<>>
    /\ best_match_inds = <<>>
    /\ best_scores = <<>>
    /\ scraped_tracks_copy = <<>>
    /\ result = <<>>
    /\ matched_track_names = <<>>
    /\ unmatched_tracks = <<>>
    /\ unmatched_inds = <<>>
    /\ unmatched_files = <<>>
    /\ choices = <<>>
    /\ choices_to_files_dict = <<>>
    /\ loop_i = 0
    /\ filenames_to_track_inds = <<>>
    /\ formatted_names = <<>>

\* ---- the whole run, from main()

RunAlbums ==
    { Album(<<"X">>, <<A, B>>, <<>>),
      Album(<<"X">>, <<A, <<"A", "?">> >>, <<>>) }

RunTrees ==
    { [root |-> <<File(<<"A", Mp3>>, 1, A), File(<<"B", Mp3>>, 2, <<>>)>>,
       nested |-> <<>>],
      [root |-> <<File(<<"A", Mp3>>, 1, A)>>,
       nested |-> << <<File(<<"A", Mp3>>, 2, B)>> >>],
      [root |-> <<File(<<"B", Mp3>>, 1, B), File(<<"c", ".jpg">>, 2, <<>>)>>,
       nested |-> <<>>],
      [root |-> <<File(<<"A", Mp3>>, 1, A), File(<<"B", Mp3>>, 2, B)>>,
       nested |-> << <<File(<<"C", Mp3>>, 3, C)>> >>] }

\* what the destination directory holds when it exists before the run
PriorFiles == <<File(<<"o", ".jpg">>, 9, <<>>)>>

RunAlbumFormats == {None, <<>>, DirName}
RunSongFormats == {None, <<>>, <<"%", "a">>}

Init ==
    /\ pc = "new"
    /\ err = NoError
    /\ album_name_format \in RunAlbumFormats
    /\ song_name_format \in RunSongFormats
    /\ flag_extract \in BOOLEAN
    /\ flag_use_metadata \in BOOLEAN
    /\ flag_preserve_album_name \in BOOLEAN
    /\ flag_preserve_song_names \in BOOLEAN
    /\ dest_path = IF flag_extract THEN "dest" ELSE "None"
    /\ update_path = "unset"
    /\ metadata = NoMetadata
    /\ platform \in {"posix", "nt"}
    /\ web \in RunAlbums
    /\ \E tree \in RunTrees, exists \in BOOLEAN :
          IF flag_extract
          THEN /\ archive = tree
               /\ zip_exists = exists
               /\ dir_at \in {"none", "path"}
               /\ root = IF dir_at = "path" THEN PriorFiles ELSE <<>>
               /\ nested = <<>>
          ELSE /\ archive = NoTree
               /\ zip_exists = FALSE
               /\ dir_at = IF exists THEN "path" ELSE "none"
               /\ root = IF exists THEN tree.root ELSE <<>>
               /\ nested = IF exists THEN tree.nested ELSE <<>>
    /\ dir_created = FALSE
    /\ tags = {}
    /\ NoLocalsYet
    /\ log = InitLog

Next ==
    \/ Construct
    \/ unzip
    \/ flatten
    \/ scrape
    \/ match
    \/ match_less_confirm
    \/ match_less_choose
    \/ match_same_select
    \/ update_confirm
    \/ write_tags
    \/ rename_songs
    \/ rename_song
    \/ rename_album
    \/ delete_zip
    \/ except_handler

Spec == Init /\ [][Next]_vars

\* ---- match() alone, entered as run() enters it after scrape()

MatchAlbums ==
    { Album(<<"X">>, <<A>>, <<>>),
      Album(<<"X">>, <<A, B>>, <<>>),
      Album(<<"X">>, <<A, B, C>>, <<>>),
      Album(<<"X">>, <<A, B>>, <<C>>),
      Album(<<"X">>, <<A, A, B>>, <<>>),
      Album(<<"X">>, <<A, B, A>>, <<>>) }

MatchDirs ==
    { <<>>,
      <<File(<<"x", Mp3>>, 1, A)>>,
      <<File(<<"x", Mp3>>, 1, A), File(<<"y", Mp3>>, 2, <<>>)>>,
      <<File(<<"x", Mp3>>, 1, A), File(<<"c", ".jpg">>, 2, <<>>),
        File(<<"y", Mp3>>, 3, B)>>,
      <<File(<<"x", Mp3>>, 1, A), File(<<"y", Mp3>>, 2, B),
        File(<<"z", Mp3>>, 3, <<>>)>>,
      <<File(<<"x", Mp3>>, 1, <<"y", Mp3, " [">>),
        File(<<"x", Mp3, " [", "y", Mp3>>, 2, <<>>)>>,
      <<File(<<"x", Mp3>>, 1, A), File(<<"y", Mp3>>, 2, B),
        File(<<"z", Mp3>>, 3, C), File(<<"w", Mp3>>, 4, <<>>)>> }

InitMatch ==
    /\ pc = "match"
    /\ err = NoError
    /\ album_name_format = <<"%", "a">>
    /\ song_name_format = <<"%", "t">>
    /\ flag_extract = FALSE
    /\ flag_use_metadata \in BOOLEAN
    /\ flag_preserve_album_name = FALSE
    /\ flag_preserve_song_names = FALSE
    /\ dest_path = "None"
    /\ update_path = "album"
    /\ web \in MatchAlbums
    /\ metadata = web
    /\ platform = "posix"
    /\ archive = NoTree
    /\ zip_exists = FALSE
    /\ dir_at = "path"
    /\ dir_created = FALSE
    /\ root \in MatchDirs
    /\ nested = <<>>
    /\ tags = {}
    /\ NoLocalsYet
    /\ log = InitLog

NextMatch ==
    \/ match
    \/ match_less_confirm
    \/ match_less_choose
    \/ match_same_select

SpecMatch == InitMatch /\ [][NextMatch]_vars

\* ---- the two template functions alone

PatternChars == {"%", "a", "t", "x"}

RECURSIVE StringsUpTo(_, _)
StringsUpTo(chars, n) ==
    IF n = 0 THEN {<<>>}
    ELSE LET shorter == StringsUpTo(chars, n - 1)
         IN  shorter \cup {Append(s, c) : s \in shorter, c \in chars}

Patterns == StringsUpTo(PatternChars, MaxPatLen) \ {<<>>}

FormatNames == {<<"x">>, <<"t">>, <<"%", "t">>, <<"%", "a">>}

FormatAlbums == {Album(name, <<track>>, <<>>) : name \in FormatNames, track \in FormatNames}

InitFormat ==
    /\ pc = "format"
    /\ err = NoError
    /\ \E pattern \in Patterns :
          /\ album_name_format = pattern
          /\ song_name_format = pattern
    /\ flag_extract = FALSE
    /\ flag_use_metadata = FALSE
    /\ flag_preserve_album_name = FALSE
    /\ flag_preserve_song_names = FALSE
    /\ dest_path = "None"
    /\ update_path = "album"
    /\ web \in FormatAlbums
    /\ metadata = web
    /\ platform = "posix"
    /\ archive = NoTree
    /\ zip_exists = FALSE
    /\ dir_at = "path"
    /\ dir_created = FALSE
    /\ root = <<>>
    /\ nested = <<>>
    /\ tags = {}
    /\ NoLocalsYet
    /\ log = InitLog

\* formatted_names = self.format_song_names([0])
FormatSongs ==
    /\ pc = "format"
    /\ pc' = "song_formatted"
    /\ formatted_names' = format_song_names(metadata, song_name_format, <<0>>)
    /\ UNCHANGED <<err, selfVars, envVars, fsVars, metadata, matchVars, loop_i,
                   filenames_to_track_inds, log>>

\* self.format_album_name()
FormatAlbum ==
    /\ pc = "format"
    /\ pc' = "album_formatted"
    /\ formatted_names' = <<format_album_name(metadata, album_name_format)>>
    /\ UNCHANGED <<err, selfVars, envVars, fsVars, metadata, matchVars, loop_i,
                   filenames_to_track_inds, log>>

NextFormat == FormatSongs \/ FormatAlbum

SpecFormat == InitFormat /\ [][NextFormat]_vars

\* ---- flatten() alone, entered as run() enters it after unzip() has
\* extracted the archive into a new directory

FlattenNames == {<<"A", Mp3>>, <<"A", "_", Mp3>>, <<"B", Mp3>>}

\* the listings of a folder: at most MaxFolder files, no name twice, in any
\* order
Listings ==
    {l \in UNION {[1..k -> FlattenNames] : k \in 0..MaxFolder} :
        \A i, j \in 1..Len(l) : i # j => l[i] # l[j]}

\* the files of a listing; base keeps the ids of different folders apart
FilesOf(listing, base) ==
    [i \in 1..Len(listing) |-> File(listing[i], base + i, <<>>)]

FlattenTrees ==
    {[root |-> FilesOf(r, 0), nested |-> <<FilesOf(n1, 10)>>] :
        r \in Listings, n1 \in Listings \ {<<>>}}
    \cup
    {[root |-> FilesOf(r, 0), nested |-> <<FilesOf(n1, 10), FilesOf(n2, 20)>>] :
        r \in Listings, n1 \in Listings \ {<<>>}, n2 \in Listings \ {<<>>}}

InitFlatten ==
    /\ pc = "flatten"
    /\ err = NoError
    /\ album_name_format = <<"%", "a">>
    /\ song_name_format = <<"%", "t">>
    /\ flag_extract = TRUE
    /\ flag_use_metadata = FALSE
    /\ flag_preserve_album_name = FALSE
    /\ flag_preserve_song_names = FALSE
    /\ dest_path = "dest"
    /\ update_path = "dest"
    /\ web \in {Album(<<"X">>, <<A>>, <<>>)}
    /\ metadata = NoMetadata
    /\ platform \in {"posix", "nt"}
    /\ archive \in FlattenTrees
    /\ zip_exists = TRUE
    /\ dir_at = "path"
    /\ dir_created = TRUE
    /\ root = archive.root
    /\ nested = archive.nested
    /\ tags = {}
    /\ NoLocalsYet
    /\ log = [InitLog EXCEPT !.extracted = TRUE]

NextFlatten == flatten

SpecFlatten == InitFlatten /\ [][NextFlatten]_vars

\* ------------------------------------------------------------------ claims

\* the candidates (the .mp3 files of the album directory) and the tracks of
\* the album
Candidates == FileNamesExt(root)
NumTracks == Len(metadata.tracks)
MatchReturned == pc = "update"

\* C1: in the equal regime (as many candidate .mp3 files as tracks) the
\* mapping match() returns is a bijection: every candidate is a key exactly
\* once and every track index 0..T-1 is a value exactly once.
C1_EqualRegimeBijection ==
    (MatchReturned /\ Len(Candidates) = NumTracks) =>
        /\ Len(filenames_to_track_inds) = Len(Candidates)
        /\ Range(DictKeys(filenames_to_track_inds)) = Range(Candidates)
        /\ Range(DictValues(filenames_to_track_inds)) = 0..(NumTracks - 1)

C3_MoreRegimeFails ==
    Len(Candidates) > NumTracks =>
        /\ pc \in {"match", "except"}
        /\ (pc = "except" /\ err # "MutagenError") => err = "MismatchException"
        /\ ~log.matrix
        /\ log.regime = "none"
        /\ log.prompts = 0
        /\ best_match_inds = <<>> /\ best_scores = <<>>
        /\ result = <<>> /\ matched_track_names = <<>>
        /\ filenames_to_track_inds = <<>>

C3_Witness ==
    /\ Len(Candidates) > NumTracks
    /\ pc = "except"
    /\ err = "MismatchException"

\* what the run has changed on disk so far
UpdateMutated ==
    \/ log.tag_writes > 0
    \/ log.song_renames > 0
    \/ log.album_renamed
    \/ log.zip_deleted
    \/ tags # {}

Mutated ==
    \/ UpdateMutated
    \/ log.extracted
    \/ log.moved
    \/ log.dirs_deleted
    \/ log.rmtree

\* one of the three precondition errors has just been raised: the two of
\* __init__ end the process, the one of match() is on its way to except
PreconditionRaised ==
    \/ pc = "crashed"
    \/ (pc = "except" /\ err = "MismatchException")

\* C4 (as claimed): when a precondition error is raised nothing has been
\* extracted, moved, renamed, deleted or tagged.
C4_PreconditionBeforeAnyMutation == PreconditionRaised => ~Mutated

\* C4 (amended): the two errors of __init__ (empty naming pattern, missing
\* source path) are raised before any mutation, and a run with an empty
\* pattern never mutates anything; MismatchException is raised by match()
\* after unzip() and flatten() have run, and before any tag is written,
\* any song file or the album folder is renamed, or the ZIP is deleted.
C4_PreconditionBeforeUpdate ==
    /\ pc = "crashed" => ~Mutated
    /\ (album_name_format = <<>> \/ song_name_format = <<>>) =>
          (~Mutated /\ pc \in {"new", "crashed"})
    /\ (pc = "except" /\ err = "MismatchException") =>
          (~UpdateMutated /\ pc # "new" /\ update_path # "unset")

C4_Witness ==
    /\ pc = "except"
    /\ err = "MismatchException"
    /\ log.extracted
    /\ log.moved
    /\ log.dirs_deleted

HasDuplicates(names) ==
    \E i, j \in 1..Len(names) : i # j /\ names[i] = names[j]

\* the song names update() would format for the mapping it was given
ExpandedNames ==
    format_song_names(metadata, song_name_format,
                      DictValues(filenames_to_track_inds))

\* C5: if two tracks of the batch get the same output file name once the
\* illegal characters are stripped, no song file is renamed and no file is
\* overwritten.
C5_StrippedCollisionAborts ==
    (filenames_to_track_inds # <<>>
     /\ HasDuplicates([k \in 1..Len(ExpandedNames) |-> NewFileName(ExpandedNames[k])]))
        => (log.song_renames = 0 /\ ~log.overwritten)

\* C6: if the song naming pattern expands to the same name for two tracks
\* of the mapping, update() renames no song file: every file of the batch
\* still carries its original name (unless the rollback of run() removed
\* the whole directory).
C6_DuplicateNamesAbortRenaming ==
    (filenames_to_track_inds # <<>> /\ HasDuplicates(ExpandedNames)) =>
        /\ log.song_renames = 0
        /\ pc # "rename_song"
        /\ ~log.rmtree =>
              \A k \in 1..Len(filenames_to_track_inds) :
                  filenames_to_track_inds[k][1] \in Names(root)

C6_Witness ==
    /\ HasDuplicates(ExpandedNames)
    /\ ~flag_preserve_song_names
    /\ pc = "rename_album"
    /\ formatted_names = ExpandedNames
    /\ log.tag_writes = 2

\* C7: when the user declines at a confirmation in a run that extracted an
\* archive, the directory the run created is gone when the process ends.
C7_DeclineRemovesOutputDir ==
    (pc = "exited" /\ log.extracted /\ dir_created) => dir_at = "none"

\* C8: no tag is written and nothing is renamed by update() before the user
\* has answered yes at every confirmation that precedes it (the one of
\* __match_less in the fewer regime, the one of update); after a decline no
\* tag has been written, nothing has been renamed, and the process is over.
C8_NoMutationBeforeConfirmation ==
    /\ UpdateMutated =>
          (log.update_yes /\ (log.regime = "less" => log.less_yes))
    /\ pc \in {"write_tags", "rename_songs", "rename_song", "rename_album",
               "delete_zip", "done"} => log.update_yes
    /\ log.declined => (~UpdateMutated /\ pc = "exited")

C8_Witness ==
    /\ log.declined
    /\ log.less_yes
    /\ pc = "exited"
    /\ filenames_to_track_inds # <<>>

\* C9: in a run that extracts an archive, when a step fails and run()
\* returns, the directory created by the extraction is gone.
C9_FailureRemovesExtractedDir ==
    (pc = "returned" /\ flag_extract /\ log.extracted) => dir_at = "none"

\* the pattern with each token that occurs in it replaced by its value, in
\* one pass from left to right; inserted values are not looked at again
RECURSIVE ExpandOnce(_, _)
ExpandOnce(pattern, name_format_dict) ==
    IF pattern = <<>> THEN <<>>
    ELSE IF \E k \in 1..Len(name_format_dict) :
                StartsWith(pattern, name_format_dict[k][1])
    THEN LET k == CHOOSE k \in 1..Len(name_format_dict) :
                     StartsWith(pattern, name_format_dict[k][1])
         IN  name_format_dict[k][2]
             \o ExpandOnce(SubSeq(pattern, Len(name_format_dict[k][1]) + 1,
                                  Len(pattern)), name_format_dict)
    ELSE <<pattern[1]>> \o ExpandOnce(Tail(pattern), name_format_dict)

\* C10: the expansion of a pattern is the pattern with every token of the
\* original pattern replaced by its value; a value that was inserted is not
\* substituted again.
C10_TokensAppliedOnce ==
    /\ pc = "song_formatted" =>
          formatted_names[1] = ExpandOnce(song_name_format, SongFormatDict(metadata, 0))
    /\ pc = "album_formatted" =>
          formatted_names[1] = ExpandOnce(album_name_format, AlbumFormatDict(metadata))

\* match() has computed its matrix and its helper is at a prompt
MatchPrompting == pc \in {"less_confirm", "less_choose", "same_select"}

\* C11: the best guess is a function of the score matrix: for each candidate
\* row, best_match_inds holds the column with the maximum score of the row,
\* the lowest such column when several hold the maximum, and best_scores
\* holds that maximum.
C11_BestGuessLowestArgmax ==
    MatchPrompting =>
        /\ Len(best_match_inds) = Len(matrix)
        /\ Len(best_scores) = Len(matrix)
        /\ \A i \in 1..Len(matrix) :
              LET b == best_match_inds[i] + 1
              IN  /\ b \in 1..Len(matrix[i])
                  /\ \A k \in 1..Len(matrix[i]) : matrix[i][k] <= matrix[i][b]
                  /\ \A k \in 1..(b - 1) : matrix[i][k] < matrix[i][b]
                  /\ best_scores[i] = matrix[i][b]

C11_Witness ==
    /\ MatchPrompting
    /\ \E i \in 1..Len(matrix) :
          \E k \in 1..Len(matrix[i]) :
              /\ k > best_match_inds[i] + 1
              /\ best_match_inds[i] > 0
              /\ matrix[i][k] = matrix[i][best_match_inds[i] + 1]

\* the (1-based) positions of the candidates whose best guess is column t
Guessers(t) == {f \in 1..Len(best_match_inds) : best_match_inds[f] = t}

\* the candidates that can still be selected: the files the remaining
\* choices stand for
RemainingPool == {DictGet(choices_to_files_dict, c) : c \in Range(choices)}

\* the files given so far to the tracks resolved by hand
ResolvedFiles ==
    {matched_track_names[unmatched_inds[k] + 1].file : k \in 1..loop_i}

\* C12: during the manual resolution of the equal regime the unmatched
\* tracks are exactly the tracks guessed by no candidate or by several, in
\* track order; the pool is exactly the candidates that share their best
\* guess with another candidate; both have the same size; every resolution
\* takes exactly the chosen candidate out of the pool, so that the pool is
\* empty once every unmatched track is resolved; and the rows matched
\* automatically keep their single candidate.
C12_ManualResolutionPool ==
    pc = "same_select" =>
        LET n == Len(file_names_ext)
        IN  /\ Range(unmatched_inds) =
                  {t \in 0..(n - 1) : Cardinality(Guessers(t)) # 1}
            /\ \A k \in 1..(Len(unmatched_inds) - 1) :
                  unmatched_inds[k] < unmatched_inds[k + 1]
            /\ Len(unmatched_tracks) = Len(unmatched_inds)
            /\ Range(unmatched_files) =
                  {file_names_ext[f] : f \in
                      {g \in 1..n : Cardinality(Guessers(best_match_inds[g])) > 1}}
            /\ Len(unmatched_files) = Len(unmatched_tracks)
            /\ Cardinality(Range(unmatched_files)) = Len(unmatched_files)
            /\ loop_i < Len(unmatched_tracks)
            /\ Cardinality(ResolvedFiles) = loop_i
            /\ RemainingPool = Range(unmatched_files) \ ResolvedFiles
            /\ Cardinality(RemainingPool) = Len(unmatched_tracks) - loop_i
            /\ \A t \in 0..(n - 1) :
                  IF Cardinality(Guessers(t)) = 1
                  THEN \E f \in Guessers(t) :
                          matched_track_names[t + 1].file = file_names_ext[f]
                  ELSE \A k \in (loop_i + 1)..Len(unmatched_inds) :
                          unmatched_inds[k] = t =>
                              matched_track_names[t + 1].file = Unmatched

\* C13: in every table the equal-regime resolver prints, a row shows the
\* NaN similarity only while its track has no file: a row that shows a file
\* (matched automatically or chosen by hand) shows a number.
C13_NaNOnlyForUnresolved ==
    \A k \in 1..Len(log.tables) :
        \A r \in 1..Len(log.tables[k]) :
            log.tables[k][r].score = NaN => log.tables[k][r].display = Unmatched

Ids(dir) == {dir[i].id : i \in 1..Len(dir)}

\* the files of a whole tree
TreeIds(tree) ==
    Ids(tree.root) \cup UNION {Ids(tree.nested[k]) : k \in 1..Len(tree.nested)}

\* C14: flatten() loses no file: it does not fail because of a name
\* collision, and when it is over the root folder has no sub-folder and
\* holds every file of the tree, each once and under a name of its own.
C14_FlattenLosesNoFile ==
    pc # "flatten" =>
        /\ pc = "scrape"
        /\ err = NoError
        /\ nested = <<>>
        /\ Ids(root) = TreeIds(archive)
        /\ Len(root) = Cardinality(TreeIds(archive))
        /\ Cardinality(Names(root)) = Len(root)

\* the output file names of the mapping update() was given
OutputNames == [k \in 1..Len(ExpandedNames) |-> NewFileName(ExpandedNames[k])]

\* a one-to-one mapping whose output names are pairwise distinct, in a run
\* that renames its song files
RenamesOneToOne ==
    /\ filenames_to_track_inds # <<>>
    /\ ~flag_preserve_song_names
    /\ ~HasDuplicates(DictValues(filenames_to_track_inds))
    /\ ~HasDuplicates(OutputNames)

\* C15: the song renames of update() preserve the set of files: for a
\* one-to-one mapping with pairwise distinct output names no rename is
\* refused because its target exists, and once the renames are over every
\* file of the mapping is still in the directory, under the output name of
\* the track it was tagged with.
C15_RenamesPreserveFiles ==
    RenamesOneToOne =>
        /\ err # "FileExistsError"
        /\ (pc = "rename_album"
            /\ log.song_renames = Len(filenames_to_track_inds)) =>
              /\ Cardinality({t[1] : t \in tags} \cap Ids(root))
                    = Len(filenames_to_track_inds)
              /\ \A k \in 1..Len(filenames_to_track_inds) :
                    \E e \in 1..Len(root) :
                        /\ root[e].name = OutputNames[k]
                        /\ <<root[e].id, filenames_to_track_inds[k][2]>> \in tags

\* C16: the regime and the emitted indices refer to the album's track list,
\* also when two tracks share a name: MismatchException is raised only with
\* more candidates than tracks, the equal regime is entered only with as
\* many candidates as tracks, the fewer regime only with fewer; the row that
\* gives a file the index i shows the name, disc and number of track i of
\* the album; and the index stored for a chosen track name is the index of
\* a track of that name.
C16_RegimeAndIndexUseTrackList ==
    /\ err = "MismatchException" => Len(Candidates) > NumTracks
    /\ log.regime = "same" => Len(Candidates) = NumTracks
    /\ log.regime = "less" => Len(Candidates) < NumTracks
    /\ pc = "same_select" =>
          \A r \in 1..Len(matched_track_names) :
              /\ matched_track_names[r].name = metadata.tracks[r].name
              /\ matched_track_names[r].disc = metadata.tracks[r].disc
              /\ matched_track_names[r].num = metadata.tracks[r].num
    /\ pc = "less_choose" =>
          \A k \in 1..Len(scraped_tracks_dict) :
              metadata.tracks[scraped_tracks_dict[k][2] + 1].name
                  = scraped_tracks_dict[k][1]

\* the destination directory of an extracting run was there before the run
PriorDirExisted ==
    /\ flag_extract
    /\ ~dir_created
    /\ (log.extracted \/ dir_at = "path")

\* C17: the rollback of run() removes only a directory this run created: a
\* destination directory that existed before the run, and the files it
\* held, survive a failure; and a run without extraction deletes no
\* directory in its rollback.
C17_RollbackOnlyOwnDirectory ==
    /\ log.rmtree => dir_created
    /\ ~flag_extract => ~log.rmtree
    /\ PriorDirExisted => (dir_at # "none" /\ Ids(PriorFiles) \subseteq Ids(root))

====
